---- MODULE Spec2Model ----
(***************************************************************************)
(* NetlifyPDFService (src/app.js): document chunking and retrieval, and    *)
(* the upload queue of InteractiveApp (src/unnamed/part_000).              *)
(*                                                                         *)
(* Text is a sequence of one-character strings, so that splitting,         *)
(* trimming, substring tests and regular-expression counting are computed  *)
(* the way the JavaScript computes them.  Scores are kept in tenths        *)
(* (3 stands for 0.3, 10 for 1.0).                                         *)
(***************************************************************************)
EXTENDS Integers, Sequences, FiniteSets, TLC

(***************************************************************************)
(* Bounds of the model.                                                    *)
(***************************************************************************)
MaxDocs == 2
MaxIngests == 2
MaxSearches == 1
MaxPending == 1
MaxBatch == 2
MaxCalls == 2

(***************************************************************************)
(* String primitives of the JavaScript runtime, as used by the service.    *)
(***************************************************************************)
UPPER == <<"A","B","C","D","E","F","G","H","I","J","K","L","M",
           "N","O","P","Q","R","S","T","U","V","W","X","Y","Z">>
LOWER == <<"a","b","c","d","e","f","g","h","i","j","k","l","m",
           "n","o","p","q","r","s","t","u","v","w","x","y","z">>

toLowerChar(c) ==
    IF \E i \in 1..26 : UPPER[i] = c
    THEN LOWER[CHOOSE i \in 1..26 : UPPER[i] = c]
    ELSE c

\* String.prototype.toLowerCase
toLowerCase(s) == [i \in 1..Len(s) |-> toLowerChar(s[i])]

\* String.prototype.includes
includes(s, sub) ==
    \E i \in 0..(Len(s) - Len(sub)) : \A j \in 1..Len(sub) : s[i + j] = sub[j]

\* String.prototype.endsWith, for a one-character suffix
endsWith(s, c) == Len(s) > 0 /\ s[Len(s)] = c

\* String.prototype.trim (the only white space of the texts is the blank)
trim(s) ==
    LET inked == {i \in 1..Len(s) : s[i] # " "}
    IN  IF inked = {} THEN <<>>
        ELSE SubSeq(s, CHOOSE i \in inked : \A j \in inked : i <= j,
                       CHOOSE i \in inked : \A j \in inked : j <= i)

\* The pieces of s between the separators, a separator being the span
\* starts[k]..ends[k] of s; empty pieces are kept, as split keeps them.
piecesBetween(s, starts, ends) ==
    LET n == Cardinality(starts)
        nth(S, k) == CHOOSE p \in S : Cardinality({q \in S : q < p}) = k - 1
        from(k) == IF k = 1 THEN 1 ELSE nth(ends, k - 1) + 1
        to(k) == IF k = n + 1 THEN Len(s) ELSE nth(starts, k) - 1
    IN  [k \in 1..(n + 1) |-> SubSeq(s, from(k), to(k))]

\* String.prototype.split(' '): every blank separates
split(s) ==
    LET blanks == {i \in 1..Len(s) : s[i] = " "}
    IN  piecesBetween(s, blanks, blanks)

\* String.prototype.split(/[.!?]+/): a maximal run of terminators separates
Terminators == {".", "!", "?"}
splitSentences(s) ==
    LET isT(i) == i >= 1 /\ i <= Len(s) /\ s[i] \in Terminators
    IN  piecesBetween(s, {i \in 1..Len(s) : isT(i) /\ ~isT(i - 1)},
                         {i \in 1..Len(s) : isT(i) /\ ~isT(i + 1)})

(***************************************************************************)
(* new RegExp(keyword, 'gi') and String.prototype.match: the number of     *)
(* non-overlapping matches, scanning from the left.  In a pattern a '.'    *)
(* matches any character, every other character of the texts matches      *)
(* itself without regard to case (the keywords of the model hold letters,  *)
(* digits and '.', no quantifier).                                         *)
(***************************************************************************)
atomMatches(p, c) == p = "." \/ toLowerChar(p) = toLowerChar(c)

matchesAt(text, keyword, i) ==
    /\ i + Len(keyword) - 1 <= Len(text)
    /\ \A j \in 1..Len(keyword) : atomMatches(keyword[j], text[i + j - 1])

RECURSIVE matchCountFrom(_, _, _)
matchCountFrom(text, keyword, i) ==
    LET hits == {p \in i..Len(text) : matchesAt(text, keyword, p)}
    IN  IF hits = {} THEN 0
        ELSE LET first == CHOOSE p \in hits : \A q \in hits : p <= q
             IN  1 + matchCountFrom(text, keyword, first + Len(keyword))
matchCount(text, keyword) == matchCountFrom(text, keyword, 1)

(***************************************************************************)
(* The texts of the model: page texts as PDF.js extracts them, file names  *)
(* and queries.                                                            *)
(***************************************************************************)
\* "Annual budget planning begins in Q3."
TextBudget ==
    <<"A","n","n","u","a","l"," ","b","u","d","g","e","t"," ","p","l","a","n","n","i","n","g",
    " ","b","e","g","i","n","s"," ","i","n"," ","Q","3",".">>
\* "Travel budget needs budget approval. The budget policy sets budget limits
\*  for each budget and budget line!"
TextPolicy ==
    <<"T","r","a","v","e","l"," ","b","u","d","g","e","t"," ","n","e","e","d","s"," ","b","u",
    "d","g","e","t"," ","a","p","p","r","o","v","a","l","."," ","T","h","e"," ","b","u","d","g",
    "e","t"," ","p","o","l","i","c","y"," ","s","e","t","s"," ","b","u","d","g","e","t"," ","l",
    "i","m","i","t","s"," ","f","o","r"," ","e","a","c","h"," ","b","u","d","g","e","t"," ","a",
    "n","d"," ","b","u","d","g","e","t"," ","l","i","n","e","!">>
\* "The budget report is due in Q4."
TextReport ==
    <<"T","h","e"," ","b","u","d","g","e","t"," ","r","e","p","o","r","t"," ","i","s"," ","d",
    "u","e"," ","i","n"," ","Q","4",".">>
\* "ab ab ab ab ab ab ab ab ab ab ab ab ab a ...  ab ab ab ab budget."
TextLong ==
    <<"a","b"," ","a","b"," ","a","b"," ","a","b"," ","a","b"," ","a","b"," ","a","b"," ","a",
    "b"," ","a","b"," ","a","b"," ","a","b"," ","a","b"," ","a","b"," ","a","b"," ","a","b"," ",
    "a","b"," ","a","b"," ","a","b"," ","a","b"," ","a","b"," ","a","b"," ","a","b"," ","a","b",
    " ","a","b"," ","a","b"," ","a","b"," ","a","b"," ","a","b"," ","a","b"," ","a","b"," ","a",
    "b"," ","a","b"," ","b","u","d","g","e","t",".">>
\* "Hi there."
TextShort == <<"H","i"," ","t","h","e","r","e",".">>
\* "b.pdf"
NamePdf == <<"b",".","p","d","f">>
\* "7"
NameDigits == <<"7">>
\* "When does budget planning begin"
QueryWhen ==
    <<"W","h","e","n"," ","d","o","e","s"," ","b","u","d","g","e","t"," ","p","l","a","n","n",
    "i","n","g"," ","b","e","g","i","n">>
\* "budget report"
QueryReport == <<"b","u","d","g","e","t"," ","r","e","p","o","r","t">>
\* "summary"
QuerySummary == <<"s","u","m","m","a","r","y">>
\* "  "
QueryBlank == <<" "," ">>

\* the pages of the PDFs of the model
PagesBudget == <<TextBudget>>
PagesPolicy == <<TextPolicy, TextBudget>>
PagesLong == <<TextLong>>
PagesShort == <<TextShort>>
PagesPair == <<TextBudget, TextReport>>
AllPages == {PagesBudget, PagesPolicy, PagesLong, PagesShort, PagesPair}

FileNames == {NamePdf, NameDigits}

\* what a user may type into the search input
Inputs == {QueryWhen, QueryReport, QuerySummary, QueryBlank}

(***************************************************************************)
(* createTextChunks: the sentences of every page, in page order.           *)
(***************************************************************************)
longEnough(s) == Len(trim(s)) > 10

\* pageText.split(/[.!?]+/).filter(s => s.trim().length > 10)
sentencesOf(text) == SelectSeq(splitSentences(text), longEnough)

cleanSentence(sentence) ==
    LET t == trim(sentence)
    IN  IF Len(t) > 0 /\ ~endsWith(t, ".") /\ ~endsWith(t, "!") /\ ~endsWith(t, "?")
        THEN Append(t, ".")
        ELSE t

getDocumentSection(pageIndex, sentenceIndex) ==
    IF pageIndex = 0 THEN "Introduction"
    ELSE IF pageIndex < 3 THEN "Policy Guidelines"
    ELSE IF pageIndex < 6 THEN "Implementation Procedures"
    ELSE IF pageIndex < 9 THEN "Quality Standards"
    ELSE "Compliance Requirements"

\* the sentences of page pageIndex (0-based) that become chunks
pageSentences(pageTexts, pageIndex) ==
    LET sentences == sentencesOf(pageTexts[pageIndex + 1])
        kept(i) == Len(cleanSentence(sentences[i])) > 5
        item(i) == [content |-> cleanSentence(sentences[i]),
                    pageNumber |-> pageIndex + 1,
                    pageIndex |-> pageIndex,
                    sentenceIndex |-> i - 1]
        RECURSIVE from(_)
        from(i) == IF i > Len(sentences) THEN <<>>
                   ELSE (IF kept(i) THEN <<item(i)>> ELSE <<>>) \o from(i + 1)
    IN  from(1)

RECURSIVE chunkTextsFrom(_, _)
chunkTextsFrom(pageTexts, pageIndex) ==
    IF pageIndex >= Len(pageTexts) THEN <<>>
    ELSE pageSentences(pageTexts, pageIndex) \o chunkTextsFrom(pageTexts, pageIndex + 1)

\* the chunk texts of every PDF of the model (chunkTextsFrom, evaluated once)
chunkTexts == [pages \in AllPages |-> chunkTextsFrom(pages, 0)]

\* a chunk numbered by the position of its sentence within its page
newChunkNumberedPerPage(item, k, embedding) ==
    [id |-> k - 1,
     content |-> item.content,
     pageNumber |-> item.pageNumber,
     chunkNumber |-> item.sentenceIndex + 1,
     embedding |-> embedding,
     documentSection |-> getDocumentSection(item.pageIndex, item.sentenceIndex)]

\* The chunk the loop pushes k-th (k = chunkId + 1); embedding is "null" or "vec".
newChunk(item, k, embedding) ==
    [id |-> k - 1,
     content |-> item.content,
     pageNumber |-> item.pageNumber,
     chunkNumber |-> k,
     embedding |-> embedding,
     documentSection |-> getDocumentSection(item.pageIndex, item.sentenceIndex)]

\* an array that leaves out the chunks whose embedding call failed
createTextChunksDroppingFailed(pageTexts, embeddingOf) ==
    LET items == chunkTexts[pageTexts]
        made(chunk) == chunk.embedding # "null"
    IN  SelectSeq([k \in 1..Len(items) |-> newChunk(items[k], k, embeddingOf[k])], made)

\* The array createTextChunks resolves to, given the outcome of every embedding call.
createTextChunks(pageTexts, embeddingOf) ==
    LET items == chunkTexts[pageTexts]
    IN  [k \in 1..Len(items) |-> newChunk(items[k], k, embeddingOf[k])]

(***************************************************************************)
(* calculateRelevance, in tenths.                                          *)
(***************************************************************************)
Min(a, b) == IF a < b THEN a ELSE b
Max(a, b) == IF a > b THEN a ELSE b

RECURSIVE keywordScore(_, _)
keywordScore(chunkContent, keywords) ==
    IF keywords = <<>> THEN 0
    ELSE (IF Len(Head(keywords)) > 2
          THEN matchCount(chunkContent, Head(keywords)) * 3
          ELSE 0) + keywordScore(chunkContent, Tail(keywords))

rawRelevance(chunkContent, query, keywords) ==
    keywordScore(chunkContent, keywords)
    + (IF includes(toLowerCase(chunkContent), toLowerCase(query)) THEN 5 ELSE 0)
    + (IF Len(chunkContent) > 100 THEN 1 ELSE 0)

calculateRelevance(chunkContent, query, keywords) ==
    Min(rawRelevance(chunkContent, query, keywords), 10)

\* the chunk contents and the accepted (trimmed, non-blank) queries of the model
AllContents == UNION {{chunkTexts[p][k].content : k \in DOMAIN chunkTexts[p]} : p \in AllPages}
AcceptedQueries == {trim(q) : q \in Inputs} \ {<<>>}

\* calculateRelevance as keywordBasedSearch calls it, with the words of the
\* query as keywords, for every chunk and query of the model (evaluated once)
keywordRelevance ==
    [c \in AllContents |->
        [q \in AcceptedQueries |-> calculateRelevance(c, q, split(toLowerCase(q)))]]

\* calculateRelevance as simulateRAG calls it: the keywords handed over are
\* the words of the chunk itself (evaluated once)
ragRelevance ==
    [c \in AllContents |->
        [q \in AcceptedQueries |-> calculateRelevance(c, q, split(toLowerCase(c)))]]

(***************************************************************************)
(* isFactualQuery, hasSemanticMatch, generateRealSummary.                  *)
(***************************************************************************)
Digits == <<"0","1","2","3","4","5","6","7","8","9">>
isDigit(c) == \E i \in 1..10 : Digits[i] = c

\* the literal patterns of factualPatterns; /\d+/ is tested apart
factualPatterns ==
    << <<"w","h","a","t"," ","i","s">>,
       <<"h","o","w"," ","m","a","n","y">>,
       <<"w","h","e","n">>,
       <<"w","h","e","r","e">>,
       <<"w","h","o">>,
       <<"h","o","w"," ","m","u","c","h">>,
       <<"c","o","s","t">>,
       <<"p","r","i","c","e">>,
       <<"a","m","o","u","n","t">>,
       <<"p","e","r","c","e","n","t","a","g","e">>,
       <<"r","a","t","e">>,
       <<"f","r","e","q","u","e","n","c","y">>,
       <<"d","u","r","a","t","i","o","n">>,
       <<"s","i","z","e">>,
       <<"w","e","i","g","h","t">>,
       <<"l","e","n","g","t","h">>,
       <<"a","r","e","a">>,
       <<"v","o","l","u","m","e">> >>
semanticVariations ==
    << [pattern |-> <<"w","h","a","t"," ","i","s">>,
        variations |-> {<<"d","e","f","i","n","i","t","i","o","n">>,
                        <<"r","e","f","e","r","s"," ","t","o">>,
                        <<"m","e","a","n","s">>,
                        <<"i","s"," ","d","e","f","i","n","e","d"," ","a","s">>}],
       [pattern |-> <<"h","o","w"," ","m","a","n","y">>,
        variations |-> {<<"n","u","m","b","e","r">>,
                        <<"q","u","a","n","t","i","t","y">>,
                        <<"a","m","o","u","n","t">>,
                        <<"c","o","u","n","t">>}],
       [pattern |-> <<"w","h","e","n">>,
        variations |-> {<<"d","a","t","e">>,
                        <<"t","i","m","e">>,
                        <<"s","c","h","e","d","u","l","e">>,
                        <<"d","e","a","d","l","i","n","e">>}],
       [pattern |-> <<"w","h","e","r","e">>,
        variations |-> {<<"l","o","c","a","t","i","o","n">>,
                        <<"p","l","a","c","e">>,
                        <<"s","i","t","e">>,
                        <<"a","r","e","a">>}],
       [pattern |-> <<"w","h","o">>,
        variations |-> {<<"p","e","r","s","o","n">>,
                        <<"i","n","d","i","v","i","d","u","a","l">>,
                        <<"e","m","p","l","o","y","e","e">>,
                        <<"s","t","a","f","f">>}],
       [pattern |-> <<"c","o","s","t">>,
        variations |-> {<<"p","r","i","c","e">>,
                        <<"f","e","e">>,
                        <<"e","x","p","e","n","s","e">>,
                        <<"b","u","d","g","e","t">>}],
       [pattern |-> <<"p","r","o","c","e","d","u","r","e">>,
        variations |-> {<<"p","r","o","c","e","s","s">>,
                        <<"m","e","t","h","o","d">>,
                        <<"s","t","e","p","s">>,
                        <<"w","o","r","k","f","l","o","w">>}] >>

isFactualQuery(query) ==
    \/ \E i \in 1..Len(query) : isDigit(query[i])
    \/ \E k \in 1..Len(factualPatterns) : includes(toLowerCase(query), factualPatterns[k])

\* the first entry whose pattern the query holds decides
hasSemanticMatch(text, query) ==
    LET queryLower == toLowerCase(query)
        held == {k \in 1..Len(semanticVariations) :
                    includes(queryLower, semanticVariations[k].pattern)}
    IN  IF held = {} THEN FALSE
        ELSE LET k == CHOOSE i \in held : \A j \in held : i <= j
             IN  \E v \in semanticVariations[k].variations : includes(toLowerCase(text), v)

NullSummary == [lead |-> "null", filename |-> <<>>, sentence |-> <<>>]

\* `Based on <filename>: <sentence>.` or `Summary from <filename>: <sentence>.` or null
generateRealSummary(chunkContent, query, filename) ==
    LET sentences == sentencesOf(chunkContent)
        n == Len(sentences)
        relevant == {i \in 1..n :
                        \/ includes(toLowerCase(sentences[i]), toLowerCase(query))
                        \/ hasSemanticMatch(sentences[i], query)}
        isKeyword(w) == Len(w) > 2
        queryKeywords == SelectSeq(split(toLowerCase(query)), isKeyword)
        scoreOf(i) == Cardinality({k \in 1..Len(queryKeywords) :
                                      includes(toLowerCase(sentences[i]), queryKeywords[k])})
        bestScore == CHOOSE b \in {scoreOf(i) : i \in 1..n} : \A i \in 1..n : scoreOf(i) <= b
        longest == CHOOSE l \in {Len(sentences[i]) : i \in 1..n} :
                       \A i \in 1..n : Len(sentences[i]) <= l
        firstOf(S) == CHOOSE i \in S : \A j \in S : i <= j
        best == IF bestScore = 0
                THEN firstOf({i \in 1..n : Len(sentences[i]) = longest})
                ELSE firstOf({i \in 1..n : scoreOf(i) = bestScore})
    IN  IF isFactualQuery(query) /\ relevant # {}
        THEN [lead |-> "Based on", filename |-> filename,
              sentence |-> trim(sentences[firstOf(relevant)])]
        ELSE IF n > 0
        THEN [lead |-> "Summary from", filename |-> filename,
              sentence |-> trim(sentences[best])]
        ELSE NullSummary

\* generateRealSummary for every chunk, query and file name of the model
\* (evaluated once)
realSummary ==
    [c \in AllContents |->
        [q \in AcceptedQueries |->
            [f \in FileNames |-> generateRealSummary(c, q, f)]]]

(***************************************************************************)
(* getContextChunks: chunk positions are counted from 1 here.              *)
(***************************************************************************)
contextSize == 2

getContextChunks(chunks, currentIndex, direction) ==
    IF direction = "before"
    THEN SubSeq(chunks, Max(1, currentIndex - contextSize), currentIndex - 1)
    ELSE SubSeq(chunks, currentIndex + 1, Min(Len(chunks), currentIndex + contextSize))

(***************************************************************************)
(* Array.prototype.sort with (a, b) => b.similarity_score -                *)
(* a.similarity_score: descending and stable.                              *)
(***************************************************************************)
insertByScore(sorted, r) ==
    LET ahead == {i \in 1..Len(sorted) : sorted[i].similarity_score >= r.similarity_score}
        k == IF ahead = {} THEN 0 ELSE CHOOSE i \in ahead : \A j \in ahead : j <= i
    IN  SubSeq(sorted, 1, k) \o <<r>> \o SubSeq(sorted, k + 1, Len(sorted))

RECURSIVE sortByScore(_)
sortByScore(results) ==
    IF results = <<>> THEN <<>>
    ELSE insertByScore(sortByScore(SubSeq(results, 1, Len(results) - 1)),
                       results[Len(results)])

(***************************************************************************)
(* mergeDocumentMatches and mergeResultsForDocument.  documentGroups is an *)
(* object keyed by filename: Object.entries lists the keys that are array  *)
(* indices ("0", "7", "42") first, in ascending numeric order, and then    *)
(* the other keys in the order of their insertion.                         *)
(***************************************************************************)
digitValue(c) == (CHOOSE i \in 1..10 : Digits[i] = c) - 1

RECURSIVE numericValue(_)
numericValue(s) ==
    IF s = <<>> THEN 0
    ELSE numericValue(SubSeq(s, 1, Len(s) - 1)) * 10 + digitValue(s[Len(s)])

isArrayIndex(key) ==
    /\ Len(key) >= 1
    /\ Len(key) <= 9
    /\ \A i \in 1..Len(key) : isDigit(key[i])
    /\ (Len(key) > 1 => key[1] # "0")

\* the keys of documentGroups in the order Object.entries lists them
groupKeys(results) ==
    LET names == {results[i].filename : i \in 1..Len(results)}
        firstAt(name) == CHOOSE i \in 1..Len(results) :
                             /\ results[i].filename = name
                             /\ \A j \in 1..(i - 1) : results[j].filename # name
        before(a, b) ==
            IF isArrayIndex(a) /\ isArrayIndex(b) THEN numericValue(a) < numericValue(b)
            ELSE IF isArrayIndex(a) THEN TRUE
            ELSE IF isArrayIndex(b) THEN FALSE
            ELSE firstAt(a) < firstAt(b)
        rank(name) == Cardinality({o \in names : before(o, name)})
    IN  [k \in 1..Cardinality(names) |-> CHOOSE name \in names : rank(name) = k - 1]

mergeResultsForDocument(filename, docResults) ==
    LET sorted == sortByScore(docResults)
        primaryResult == sorted[1]
        additionalResults == SubSeq(sorted, 2, Len(sorted))
    IN  primaryResult @@ [contentNote |-> Len(additionalResults) > 0,
                          mergedMatches |-> Len(docResults),
                          additionalMatches |-> additionalResults]

mergeDocumentMatches(results) ==
    LET keys == groupKeys(results)
        group(k) == LET inGroup(r) == r.filename = keys[k] IN SelectSeq(results, inGroup)
    IN  [k \in 1..Len(keys) |->
            IF Len(group(k)) = 1 THEN group(k)[1]
            ELSE mergeResultsForDocument(keys[k], group(k))]

\* result.additionalMatches, undefined on a result that was not merged
additionalMatchesOf(result) ==
    IF "additionalMatches" \in DOMAIN result THEN result.additionalMatches ELSE <<>>

(***************************************************************************)
(* Documents.  A document is the object processPDFFile pushes; its chunks  *)
(* field holds what extractTextFromPDF got from createTextChunks: isArray  *)
(* tells whether that value is an array, settled whether the chunk list    *)
(* is complete, value the chunk list.  id stands for                       *)
(* `doc_${Date.now()}_${Math.floor(Math.random() * 1000)}`, a fresh value   *)
(* for each ingestion: the serial number of the ingestion.                 *)
(***************************************************************************)
Modes == {"search", "rag", "summary"}

searchThreshold == 3
ragThreshold == 4
vectorTopK == 10

\* scores the vector database may report for a hit, in tenths
VecScores == {-1, 7}

isArrayOfChunks(doc) == doc.chunks.isArray

\* one entry of results in keywordBasedSearch / vectorSimilaritySearch; docIndex
\* and chunkIndex are the two numbers of its id, docId (auxiliary) is the id of
\* the document the chunk was read from
newResult(doc, docIndex, chunkIndex, relevance, query, searchMethod) ==
    LET chunks == doc.chunks.value
        chunk == chunks[chunkIndex]
    IN  [docIndex |-> docIndex,
         chunkIndex |-> chunkIndex,
         docId |-> doc.id,
         content |-> chunk.content,
         filename |-> doc.filename,
         similarity_score |-> relevance,
         chunk_index |-> chunk.chunkNumber,
         pageNumber |-> chunk.pageNumber,
         summary |-> realSummary[chunk.content][query][doc.filename],
         contextBefore |-> getContextChunks(chunks, chunkIndex, "before"),
         contextAfter |-> getContextChunks(chunks, chunkIndex, "after"),
         searchMethod |-> searchMethod]

\* does a chunk scoring relevance pass the threshold of keywordBasedSearch
passesSearchThreshold(relevance) == relevance > searchThreshold

\* the results keywordBasedSearch pushes for one document
docResults(doc, docIndex, query) ==
    IF ~isArrayOfChunks(doc) THEN <<>>
    ELSE LET chunks == doc.chunks.value
             relevance(i) == keywordRelevance[chunks[i].content][query]
             RECURSIVE from(_)
             from(i) ==
                 IF i > Len(chunks) THEN <<>>
                 ELSE (IF passesSearchThreshold(relevance(i))
                       THEN <<newResult(doc, docIndex, i, relevance(i), query, "keyword")>>
                       ELSE <<>>) \o from(i + 1)
         IN  from(1)

RECURSIVE keywordResultsFrom(_, _, _)
keywordResultsFrom(docs, docIndex, query) ==
    IF docIndex > Len(docs) THEN <<>>
    ELSE docResults(docs[docIndex], docIndex, query)
         \o keywordResultsFrom(docs, docIndex + 1, query)

\* results of keywordBasedSearch after the sort, before the merge
keywordRawResults(docs, query) ==
    sortByScore(keywordResultsFrom(docs, 1, query))

keywordBasedSearch(docs, query) == mergeDocumentMatches(keywordRawResults(docs, query))

\* findChunkById: <<docIndex, chunkIndex>> of the first chunk with the id, or
\* <<0, 0>> for null.  doc.chunks.length is undefined unless chunks is an array.
findChunkById(docs, chunkId) ==
    LET found == {p \in UNION {{<<d, c>> : c \in 1..Len(docs[d].chunks.value)} :
                                d \in {e \in 1..Len(docs) : isArrayOfChunks(docs[e])}} :
                     docs[p[1]].chunks.value[p[2]].id = chunkId}
    IN  IF found = {} THEN <<0, 0>>
        ELSE CHOOSE p \in found : \A q \in found :
                 p[1] < q[1] \/ (p[1] = q[1] /\ p[2] <= q[2])

\* results of vectorSimilaritySearch after the sort, before the merge;
\* hits is what vectorDB.search returned
RECURSIVE vectorResultsFrom(_, _, _, _)
vectorResultsFrom(docs, hits, k, query) ==
    IF k > Len(hits) THEN <<>>
    ELSE LET at == findChunkById(docs, hits[k].id)
         IN  (IF at # <<0, 0>>
              THEN <<newResult(docs[at[1]], at[1], at[2], hits[k].score, query, "vector")>>
              ELSE <<>>) \o vectorResultsFrom(docs, hits, k + 1, query)

vectorRawResults(docs, hits, query) == sortByScore(vectorResultsFrom(docs, hits, 1, query))

(***************************************************************************)
(* simulateRAG.                                                            *)
(***************************************************************************)
passesRagThreshold(relevance) == relevance > ragThreshold

ragDocChunks(doc, query) ==
    LET chunks == doc.chunks.value
        RECURSIVE from(_)
        from(i) ==
            IF i > Len(chunks) THEN <<>>
            ELSE (IF passesRagThreshold(ragRelevance[chunks[i].content][query])
                  THEN <<[content |-> chunks[i].content,
                          docId |-> doc.id,
                          filename |-> doc.filename,
                          pageNumber |-> chunks[i].pageNumber,
                          chunkNumber |-> chunks[i].chunkNumber,
                          similarity_score |-> ragRelevance[chunks[i].content][query],
                          documentSection |-> chunks[i].documentSection]>>
                  ELSE <<>>) \o from(i + 1)
    IN  from(1)

RECURSIVE relevantChunksFrom(_, _, _)
relevantChunksFrom(docs, docIndex, query) ==
    IF docIndex > Len(docs) THEN <<>>
    ELSE ragDocChunks(docs[docIndex], query) \o relevantChunksFrom(docs, docIndex + 1, query)

\* The outcome of the promise simulateRAG returns.  doc.chunks.forEach is a
\* TypeError unless chunks is an array; with relevant chunks the sources are
\* mapped with chunk.metadata.documentSection, and an entry of relevantChunks
\* has no metadata: a TypeError as well.
simulateRAG(docs, query) ==
    IF \E i \in 1..Len(docs) : ~isArrayOfChunks(docs[i])
    THEN [status |-> "rejected", answer |-> "TypeError", sources |-> <<>>]
    ELSE IF sortByScore(relevantChunksFrom(docs, 1, query)) = <<>>
    THEN [status |-> "fulfilled", answer |-> "No matching information found", sources |-> <<>>]
    ELSE [status |-> "rejected", answer |-> "TypeError", sources |-> <<>>]

(***************************************************************************)
(* generateDocumentSummary.                                                *)
(***************************************************************************)
generalSummaryWords ==
    {<<"s","u","m","m","a","r","y">>,
     <<"o","v","e","r","v","i","e","w">>,
     <<"m","a","i","n"," ","p","o","i","n","t","s">>,
     <<"a","l","l"," ","d","o","c","u","m","e","n","t","s">>}

summarySource(doc) ==
    [docId |-> doc.id, filename |-> doc.filename, pageNumber |-> "All",
     chunkNumber |-> "All", similarity_score |-> 10]

generateDocumentSummary(docs, query) ==
    LET queryLower == toLowerCase(query)
        targets == {i \in 1..Len(docs) :
                       \/ includes(toLowerCase(docs[i].filename), queryLower)
                       \/ includes(queryLower, toLowerCase(docs[i].filename))}
    IN  IF Len(docs) = 0
        THEN [status |-> "fulfilled", answer |-> "No documents available", sources |-> <<>>]
        ELSE IF \E w \in generalSummaryWords : includes(queryLower, w)
        THEN [status |-> "fulfilled", answer |-> "Comprehensive Document Summary",
              sources |-> [i \in 1..Len(docs) |-> summarySource(docs[i])]]
        ELSE IF targets # {}
        THEN [status |-> "fulfilled", answer |-> "Summary",
              sources |-> <<summarySource(docs[CHOOSE i \in targets :
                                                   \A j \in targets : i <= j])>>]
        ELSE [status |-> "fulfilled", answer |-> "No specific document found",
              sources |-> <<>>]

(***************************************************************************)
(* The files a user may hand to processFiles.                              *)
(***************************************************************************)
pdfFile(name, pages) == [name |-> name, pdf |-> TRUE, tooLarge |-> FALSE, pages |-> pages]
PdfFiles ==
    {pdfFile(NamePdf, PagesBudget), pdfFile(NameDigits, PagesPair),
     pdfFile(NameDigits, PagesShort)}
OtherFiles ==
    {[name |-> NamePdf, pdf |-> TRUE, tooLarge |-> TRUE, pages |-> PagesBudget],
     [name |-> NamePdf, pdf |-> FALSE, tooLarge |-> FALSE, pages |-> PagesBudget]}
Files == PdfFiles \cup OtherFiles


(***************************************************************************)
(* State of the service.                                                   *)
(*   currentMode, documents, searchCount, embeddings, vectorDB: the fields *)
(*     of NetlifyPDFService (embeddings is TRUE when the field holds the   *)
(*     pipeline, FALSE when it is null; vectorDB.entries is what was added *)
(*     to the FAISS object, src being the id of the adding document);      *)
(*   setupPc: where setupFreeStack stands;                                 *)
(*   uploads: the files the loop of processFiles has still to process;     *)
(*   builders: the createTextChunks calls suspended on an embedding call;  *)
(*   pending: the performSearch calls suspended on the timer or, inside    *)
(*     vectorSimilaritySearch, on the embedding of the query;              *)
(*   ret: what the step just taken produced - how the promise (or value)   *)
(*     of a retrieval function settled, the display routine it was handed  *)
(*     to, the alert the handler raised, and whether the step called the   *)
(*     embedding provider.  Nothing in the program keeps these, so the     *)
(*     next step clears the record;                                        *)
(*   nextId, removed: auxiliary - the serial number of the next ingestion  *)
(*     and the ids of the documents removeFile has removed.                *)
(***************************************************************************)
VARIABLES currentMode, documents, searchCount, embeddings, vectorDB, setupPc,
          uploads, builders, pending, ret, nextId, removed,
          uploadQueue, processingIndex, chains, notification, posted, handed, calls

\* the variables of NetlifyPDFService
serviceVars == <<currentMode, documents, searchCount, embeddings, vectorDB, setupPc,
                 uploads, builders, pending, ret, nextId, removed>>

\* The upload queue of InteractiveApp (src/unnamed/part_000), stated with
\* its actions below:
\*   uploadQueue, processingIndex: the fields of InteractiveApp;
\*   chains: the processUploadQueue calls in flight, each awaiting its
\*     uploadFile ("upload") or scheduled by setTimeout ("timer");
\*   notification: the notification the step just taken showed last;
\*   posted, handed, calls: auxiliary - the files POSTed to /upload, in
\*     order, the PDFs handed to processFiles and the number of its calls.
appVars == <<uploadQueue, processingIndex, chains, notification, posted, handed, calls>>

vars == <<serviceVars, appVars>>

\* InteractiveApp after its constructor
InitUploadQueue ==
    /\ uploadQueue = <<>>
    /\ processingIndex = 0
    /\ chains = <<>>
    /\ notification = "none"
    /\ posted = <<>>
    /\ handed = {}
    /\ calls = 0

NoRet ==
    [fn |-> "none", query |-> <<>>, status |-> "none", results |-> <<>>, raw |-> <<>>,
     answer |-> "", sources |-> <<>>, via |-> "none", display |-> "none",
     alert |-> "none", called |-> FALSE]

\* a step that only raises an alert and / or calls the embedding provider
stepRet(alert, called) == [NoRet EXCEPT !.alert = alert, !.called = called]

Init ==
    /\ currentMode = "search"
    /\ documents = <<>>
    /\ searchCount = 0
    /\ embeddings = FALSE
    /\ vectorDB = [present |-> FALSE, entries |-> <<>>]
    /\ setupPc = "pipeline"
    /\ uploads = <<>>
    /\ builders = <<>>
    /\ pending = <<>>
    /\ ret = NoRet
    /\ nextId = 1
    /\ removed = {}
    /\ InitUploadQueue

(***************************************************************************)
(* setupFreeStack.                                                         *)
(***************************************************************************)
\* pipeline('feature-extraction', ...) settles: loaded (the test embedding is
\* then requested) or not (pipeline undefined, or the load failed)
SetupLoad ==
    /\ setupPc = "pipeline"
    /\ \/ /\ embeddings' = TRUE
          /\ setupPc' = "testing"
          /\ ret' = stepRet("none", TRUE)
          /\ UNCHANGED vectorDB
       \/ /\ embeddings' = FALSE
          /\ \E faiss \in BOOLEAN : vectorDB' = [vectorDB EXCEPT !.present = faiss]
          /\ setupPc' = "done"
          /\ ret' = NoRet
    /\ UNCHANGED <<currentMode, documents, searchCount, uploads, builders, pending,
                   nextId, removed>>
    /\ UNCHANGED appVars

\* the test embedding settles (a failure is only logged); FAISS is set up if defined
SetupFinish ==
    /\ setupPc = "testing"
    /\ \E faiss \in BOOLEAN : vectorDB' = [vectorDB EXCEPT !.present = faiss]
    /\ setupPc' = "done"
    /\ ret' = NoRet
    /\ UNCHANGED <<currentMode, documents, searchCount, embeddings, uploads, builders,
                   pending, nextId, removed>>
    /\ UNCHANGED appVars

(***************************************************************************)
(* processFiles, processPDFFile, extractTextFromPDF, createTextChunks.     *)
(***************************************************************************)
isPdf(file) == file.pdf

ProcessFiles(files) ==
    /\ uploads = <<>>
    /\ nextId <= MaxIngests
    /\ IF SelectSeq(files, isPdf) = <<>>
       THEN ret' = stepRet("warning", FALSE) /\ UNCHANGED uploads
       ELSE uploads' = SelectSeq(files, isPdf) /\ ret' = NoRet
    /\ UNCHANGED <<currentMode, documents, searchCount, embeddings, vectorDB, setupPc,
                   builders, pending, nextId, removed>>
    /\ UNCHANGED appVars

\* the document object of processPDFFile
newDocument(file, id, chunks) ==
    [id |-> id,
     filename |-> file.name,
     content |-> file.pages,
     chunks |-> chunks,
     pageCount |-> Len(file.pages),
     status |-> "processed"]

\* extractedText.chunks is the promise of the async createTextChunks, which
\* extractTextFromPDF does not await: never an array.  With no embedding
\* pipeline createTextChunks has no real suspension and the chunk list is
\* complete when the document is pushed.
chunksField(settledNow, value) == [isArray |-> FALSE, settled |-> settledNow, value |-> value]

allNull(pages) == [k \in 1..Len(chunkTexts[pages]) |-> "null"]

\* the check of processPDFFile on the extracted chunks: the length of a
\* promise is undefined, so the check never rejects
noReadableText(chunks) == chunks.isArray /\ Len(chunks.value) = 0

ProcessPDFFile ==
    /\ uploads # <<>>
    /\ LET file == Head(uploads)
           startsBuilder == embeddings /\ Len(chunkTexts[file.pages]) > 0
           chunks == IF startsBuilder THEN chunksField(FALSE, <<>>)
                     ELSE chunksField(TRUE, createTextChunks(file.pages, allNull(file.pages)))
       IN  IF file.tooLarge \/ noReadableText(chunks)
           THEN /\ ret' = stepRet("danger", FALSE)
                /\ uploads' = <<>>
                /\ UNCHANGED <<documents, builders, nextId>>
           ELSE /\ Len(documents) < MaxDocs
                /\ nextId <= MaxIngests
                /\ documents' = Append(documents, newDocument(file, nextId, chunks))
                /\ nextId' = nextId + 1
                /\ builders' = IF startsBuilder
                               THEN Append(builders, [id |-> nextId, pages |-> file.pages,
                                                      embedded |-> <<>>])
                               ELSE builders
                /\ uploads' = Tail(uploads)
                /\ ret' = stepRet(IF Tail(uploads) = <<>> THEN "success" ELSE "none",
                                  startsBuilder)
    /\ UNCHANGED <<currentMode, searchCount, embeddings, vectorDB, setupPc, pending,
                   removed>>
    /\ UNCHANGED appVars

\* addChunksToVectorDB: the ids of the chunks that have an embedding
newEntries(chunks, docId) ==
    LET embeddedChunk(c) == c.embedding # "null"
        withVec == SelectSeq(chunks, embeddedChunk)
    IN  [k \in 1..Len(withVec) |-> [id |-> withVec[k].id, src |-> docId]]

addChunksToVectorDB(db, chunks, docId) ==
    IF db.present THEN [db EXCEPT !.entries = @ \o newEntries(chunks, docId)] ELSE db

\* An embedding call of createTextChunks settles with a vector or fails (the
\* chunk then keeps embedding null).  After the last chunk the chunks go to
\* the vector database and the promise is fulfilled.
EmbedChunk(b, outcome) ==
    /\ b \in 1..Len(builders)
    /\ LET builder == builders[b]
           embedded == Append(builder.embedded, outcome)
           last == Len(embedded) = Len(chunkTexts[builder.pages])
           chunks == createTextChunks(builder.pages, embedded)
           others == SubSeq(builders, 1, b - 1) \o SubSeq(builders, b + 1, Len(builders))
       IN  IF ~last
           THEN /\ builders' = [builders EXCEPT ![b].embedded = embedded]
                /\ ret' = stepRet("none", TRUE)
                /\ UNCHANGED <<documents, vectorDB>>
           ELSE /\ builders' = others
                /\ ret' = NoRet
                /\ vectorDB' = addChunksToVectorDB(vectorDB, chunks, builder.id)
                /\ documents' = [i \in 1..Len(documents) |->
                                    IF documents[i].id = builder.id
                                    THEN [documents[i] EXCEPT !.chunks = chunksField(TRUE, chunks)]
                                    ELSE documents[i]]
    /\ UNCHANGED <<currentMode, searchCount, embeddings, setupPc, uploads, pending,
                   nextId, removed>>
    /\ UNCHANGED appVars

(***************************************************************************)
(* removeFile and setMode.                                                 *)
(***************************************************************************)
\* a filter that keeps every document
keptDocumentsUnfiltered(docs, fileId) == docs

keptDocuments(docs, fileId) ==
    LET kept(doc) == doc.id # fileId IN SelectSeq(docs, kept)

RemoveFile(fileId) ==
    /\ documents' = keptDocuments(documents, fileId)
    /\ removed' = removed \cup {documents[i].id : i \in {j \in 1..Len(documents) :
                                                            documents[j].id = fileId}}
    /\ ret' = stepRet("success", FALSE)
    /\ UNCHANGED <<currentMode, searchCount, embeddings, vectorDB, setupPc, uploads,
                   builders, pending, nextId>>
    /\ UNCHANGED appVars

SetMode(mode) ==
    /\ currentMode' = mode
    /\ ret' = NoRet
    /\ UNCHANGED <<documents, searchCount, embeddings, vectorDB, setupPc, uploads,
                   builders, pending, nextId, removed>>
    /\ UNCHANGED appVars

(***************************************************************************)
(* performSearch, simulateSearch, vectorSimilaritySearch, displayResults.  *)
(***************************************************************************)
\* how a retrieval function settled, the display routine performSearch handed
\* its return value to, and the alert performSearch raised
settled(fn, query, outcome, results, raw, via, display, alert) ==
    [fn |-> fn, query |-> query, status |-> outcome.status,
     results |-> results, raw |-> raw, answer |-> outcome.answer,
     sources |-> outcome.sources, via |-> via, display |-> display,
     alert |-> alert, called |-> FALSE]

Fulfilled == [status |-> "fulfilled", answer |-> "", sources |-> <<>>]

\* a test of the vector database alone
useVectorSearchUnguarded(emb, db) == db.present

\* simulateSearch takes the vector path when both fields are set
useVectorSearch(emb, db) == emb /\ db.present

\* the value simulateSearch resolves to on its keyword path
keywordSettled(docs, query, display, alert) ==
    LET raw == keywordRawResults(docs, query)
    IN  settled("simulateSearch", query, Fulfilled, mergeDocumentMatches(raw), raw,
                "keyword", display, alert)

\* a handler that accepts every query, without the two checks
PerformSearchUnchecked(input) ==
    /\ searchCount < MaxSearches
    /\ Len(pending) < MaxPending
    /\ searchCount' = searchCount + 1
    /\ pending' = Append(pending, [query |-> trim(input), stage |-> "timer"])
    /\ ret' = NoRet
    /\ UNCHANGED <<currentMode, documents, embeddings, vectorDB, setupPc, uploads,
                   builders, nextId, removed>>
    /\ UNCHANGED appVars

\* the blank and the no-document checks; an accepted query waits for the timer
PerformSearch(input) ==
    /\ LET query == trim(input)
       IN  IF query = <<>> \/ Len(documents) = 0
           THEN /\ ret' = stepRet("warning", FALSE)
                /\ UNCHANGED <<searchCount, pending>>
           ELSE /\ searchCount < MaxSearches
                /\ Len(pending) < MaxPending
                /\ searchCount' = searchCount + 1
                /\ pending' = Append(pending, [query |-> query, stage |-> "timer"])
                /\ ret' = NoRet
    /\ UNCHANGED <<currentMode, documents, embeddings, vectorDB, setupPc, uploads,
                   builders, nextId, removed>>
    /\ UNCHANGED appVars

withoutPending(p) == SubSeq(pending, 1, p - 1) \o SubSeq(pending, p + 1, Len(pending))

\* The timer of performSearch fires.  The retrieval function of the current
\* mode is called, and what it returns is handed to the display routine of
\* the current mode at once: for simulateSearch and simulateRAG that is the
\* promise they return, on which results.forEach / results.sources.length
\* are a TypeError, caught by performSearch ('Search error').
RunSearch(p) ==
    /\ p \in 1..Len(pending)
    /\ pending[p].stage = "timer"
    /\ LET query == pending[p].query
       IN  CASE currentMode = "search" ->
                  IF Len(documents) = 0
                  THEN /\ ret' = settled("simulateSearch", query, Fulfilled, <<>>, <<>>,
                                         "empty", "displaySearchResults", "danger")
                       /\ pending' = withoutPending(p)
                  ELSE IF useVectorSearch(embeddings, vectorDB)
                  THEN /\ pending' = [pending EXCEPT ![p].stage = "embedding"]
                       /\ ret' = [stepRet("danger", TRUE) EXCEPT
                                     !.display = "displaySearchResults"]
                  ELSE /\ ret' = keywordSettled(documents, query,
                                                "displaySearchResults", "danger")
                       /\ pending' = withoutPending(p)
             [] currentMode = "summary" ->
                  /\ ret' = settled("generateDocumentSummary", query,
                                    generateDocumentSummary(documents, query),
                                    <<>>, <<>>, "none", "displaySummaryResults", "none")
                  /\ pending' = withoutPending(p)
             [] OTHER ->
                  /\ ret' = settled("simulateRAG", query, simulateRAG(documents, query),
                                    <<>>, <<>>, "none", "displayRAGResults", "danger")
                  /\ pending' = withoutPending(p)
    /\ UNCHANGED <<currentMode, documents, searchCount, embeddings, vectorDB, setupPc,
                   uploads, builders, nextId, removed>>
    /\ UNCHANGED appVars

\* what vectorDB.search(queryEmbedding, 10) returns: the stored ids, at most
\* ten, each with the score the database reports
vectorHits(db, scores) ==
    [k \in 1..Min(vectorTopK, Len(db.entries)) |-> [id |-> db.entries[k].id, score |-> scores[k]]]

\* The embedding of the query settles inside vectorSimilaritySearch.  On
\* success the hits are mapped to chunks, sorted and merged, and that is
\* the result, also when it is empty; on failure simulateSearch catches the
\* error and runs keywordBasedSearch.
VectorSearchReturns(p, embedded) ==
    /\ p \in 1..Len(pending)
    /\ pending[p].stage = "embedding"
    /\ LET query == pending[p].query
       IN  IF embedded
           THEN \E scores \in [1..Min(vectorTopK, Len(vectorDB.entries)) -> VecScores] :
                    LET raw == vectorRawResults(documents, vectorHits(vectorDB, scores), query)
                    IN  ret' = settled("simulateSearch", query, Fulfilled,
                                       mergeDocumentMatches(raw), raw, "vector", "none", "none")
           ELSE ret' = keywordSettled(documents, query, "none", "none")
    /\ pending' = withoutPending(p)
    /\ UNCHANGED <<currentMode, documents, searchCount, embeddings, vectorDB, setupPc,
                   uploads, builders, nextId, removed>>
    /\ UNCHANGED appVars

(***************************************************************************)
(* The service from its construction.                                      *)
(***************************************************************************)
\* The batches handed to processFiles: one file, or several files of which
\* one is a PDF that processPDFFile rejects (a batch of readable PDFs is
\* processed as its files are one by one).
Batches ==
    {files \in UNION {[1..n -> Files] : n \in 1..MaxBatch} :
        Len(files) > 1 => \E i \in DOMAIN files : files[i].pdf /\ files[i].tooLarge}

Next ==
    \/ SetupLoad
    \/ SetupFinish
    \/ \E files \in Batches : ProcessFiles(files)
    \/ ProcessPDFFile
    \/ \E b \in 1..MaxIngests, outcome \in {"vec", "null"} : EmbedChunk(b, outcome)
    \/ \E fileId \in 1..MaxIngests : RemoveFile(fileId)
    \/ \E mode \in Modes : SetMode(mode)
    \/ \E input \in Inputs : PerformSearch(input)
    \/ \E p \in 1..MaxPending : RunSearch(p)
    \/ \E p \in 1..MaxPending, embedded \in BOOLEAN : VectorSearchReturns(p, embedded)

Spec == Init /\ [][Next]_vars

(***************************************************************************)
(* The service holding documents whose chunks field is the array that      *)
(* createTextChunks resolves to - the documents keywordBasedSearch,        *)
(* findChunkById and simulateRAG are written for - ingested before or      *)
(* after setupFreeStack has ended.                                         *)
(***************************************************************************)
IndexedFiles ==
    {pdfFile(NamePdf, PagesBudget), pdfFile(NamePdf, PagesPolicy),
     pdfFile(NameDigits, PagesLong)}

\* the document of file, every embedding call of its ingestion having ended
\* in outcome
indexedDocument(file, id, outcome) ==
    newDocument(file, id,
                [isArray |-> TRUE, settled |-> TRUE,
                 value |-> createTextChunks(file.pages,
                                            [k \in 1..Len(chunkTexts[file.pages]) |-> outcome])])

\* what the ingestions of docs have added to the vector database
RECURSIVE entriesOf(_)
entriesOf(docs) ==
    IF docs = <<>> THEN <<>>
    ELSE newEntries(Head(docs).chunks.value, Head(docs).id) \o entriesOf(Tail(docs))

InitIndexed ==
    /\ currentMode = "search"
    /\ searchCount = 0
    /\ setupPc \in {"pipeline", "done"}
    /\ embeddings \in (IF setupPc = "done" THEN BOOLEAN ELSE {FALSE})
    /\ \E n \in 1..Min(MaxDocs, MaxIngests) :
         \E files \in [1..n -> IndexedFiles],
            outcomes \in [1..n -> IF embeddings THEN {"vec", "null"} ELSE {"null"}],
            faiss \in (IF setupPc = "done" THEN BOOLEAN ELSE {FALSE}) :
             /\ documents = [i \in 1..n |-> indexedDocument(files[i], i, outcomes[i])]
             /\ vectorDB = [present |-> faiss,
                            entries |-> IF faiss THEN entriesOf(documents) ELSE <<>>]
             /\ nextId = n + 1
    /\ uploads = <<>>
    /\ builders = <<>>
    /\ pending = <<>>
    /\ ret = NoRet
    /\ removed = {}
    /\ InitUploadQueue

SpecIndexed == InitIndexed /\ [][Next]_vars

(***************************************************************************)
(* What the step just taken returned.                                      *)
(***************************************************************************)
\* the additional matches over all merged results, in order
RECURSIVE additionalFrom(_)
additionalFrom(results) ==
    IF results = <<>> THEN <<>>
    ELSE additionalMatchesOf(Head(results)) \o additionalFrom(Tail(results))

returnedAdditional == additionalFrom(ret.results)

\* the documents the primary candidates, additional matches and sources of
\* the returned value were read from
returnedDocIds ==
    {ret.results[i].docId : i \in DOMAIN ret.results}
    \cup {returnedAdditional[i].docId : i \in DOMAIN returnedAdditional}
    \cup {ret.sources[i].docId : i \in DOMAIN ret.sources}

\* the search methods of every candidate simulateSearch returned
returnedMethods ==
    {ret.raw[i].searchMethod : i \in DOMAIN ret.raw}
    \cup {ret.results[i].searchMethod : i \in DOMAIN ret.results}
    \cup {returnedAdditional[i].searchMethod : i \in DOMAIN returnedAdditional}

(***************************************************************************)
(* Properties.                                                             *)
(***************************************************************************)
\* C1: once removeFile has removed a document, no query in any mode returns
\* a primary candidate, an additional match or a source read from it,
\* whatever ingests, removals and queries follow.
C1_RemovedNeverReturned == returnedDocIds \cap removed = {}

\* a vector search that returns candidates with merged additional matches
\* after a removal
C1_Witness ==
    /\ removed # {}
    /\ ret.via = "vector"
    /\ returnedAdditional # <<>>

\* C7: with this.embeddings null after setupFreeStack, no step calls the
\* embedding provider and simulateSearch returns candidates of the keyword
\* method only.
C7_KeywordOnlyWithoutEmbeddings ==
    (setupPc = "done" /\ ~embeddings) =>
        /\ ~ret.called
        /\ ret.fn = "simulateSearch" => returnedMethods \subseteq {"keyword"}

\* simulateSearch returning keyword candidates while embeddings is null and
\* the vector database is set up
C7_Witness ==
    /\ setupPc = "done"
    /\ ~embeddings
    /\ vectorDB.present
    /\ ret.fn = "simulateSearch"
    /\ ret.results # <<>>
    /\ returnedMethods = {"keyword"}

\* C2: with the one-sentence budget PDF ingested and nothing else, the query
\* 'When does budget planning begin' in search mode yields exactly one
\* candidate, from that document, with a non-null summary quoting the
\* sentence, and the query does not end in an error.
C2_BudgetScenario ==
    (/\ ret.fn = "simulateSearch"
     /\ ret.query = QueryWhen
     /\ Len(documents) = 1
     /\ documents[1].content = PagesBudget)
    => /\ ret.alert # "danger"
       /\ Len(ret.results) = 1
       /\ ret.results[1].docId = documents[1].id
       /\ ret.results[1].summary.lead # "null"
       /\ ret.results[1].summary.sentence # <<>>
       /\ includes(TextBudget, ret.results[1].summary.sentence)

\* C3: every candidate simulateSearch returns, and every additional match
\* attached to one, has a similarity_score within [0, 1].
inUnitInterval(score) == 0 <= score /\ score <= 10

C4_SameFileOnce ==
    \A i, j \in DOMAIN documents :
        (documents[i].filename = documents[j].filename
         /\ documents[i].content = documents[j].content) => i = j

\* C5: a document contributing n > 1 raw candidates appears in the output of
\* mergeDocumentMatches as exactly one merged result, with n - 1 additional
\* matches and its highest-scoring candidate as primary; a document
\* contributing one candidate appears once with no additional match.
rawOfDocument(docId) ==
    LET ofDocument(r) == r.docId = docId IN SelectSeq(ret.raw, ofDocument)

returnedChunk(docIndex, chunkIndex) ==
    \E i \in DOMAIN ret.raw :
        ret.raw[i].docIndex = docIndex /\ ret.raw[i].chunkIndex = chunkIndex

noChunkAboveRagThreshold(query) ==
    \A d \in DOMAIN documents :
        /\ documents[d].chunks.settled
        /\ \A c \in DOMAIN documents[d].chunks.value :
               ragRelevance[documents[d].chunks.value[c].content][query] <= ragThreshold

C10_NoMatchReturnsNormally ==
    (ret.fn = "simulateRAG" /\ Len(documents) >= 1 /\ noChunkAboveRagThreshold(ret.query))
    => /\ ret.status = "fulfilled"
       /\ ret.answer = "No matching information found"
       /\ ret.sources = <<>>
       /\ ret.alert # "danger"

\* the chunks simulateRAG considers for query: those above its threshold,
\* in descending order of score
ragCandidates(query) == sortByScore(relevantChunksFrom(documents, 1, query))

trimmedInput == [input \in Inputs |-> trim(input)]

\* C12: performSearch rejects a query that is blank after trimming, and a
\* query issued while this.documents is empty, before any retrieval: the
\* step invokes no search, RAG or summary function, displays nothing, and
\* leaves documents, searchCount and the suspended searches unchanged; a
\* query is counted and started only when it is not blank and a document
\* is listed.
C12_RejectsBlankAndNoDocuments ==
    [][/\ \A input \in Inputs :
              ((trimmedInput[input] = <<>> \/ Len(documents) = 0) /\ PerformSearch(input))
              => /\ ret'.fn = "none"
                 /\ ret'.display = "none"
                 /\ ret'.alert = "warning"
                 /\ UNCHANGED <<documents, searchCount, pending>>
       /\ (searchCount' # searchCount \/ Len(pending') > Len(pending))
              => /\ Len(documents) > 0
                 /\ searchCount' = searchCount + 1
                 /\ pending' = Append(pending, pending'[Len(pending')])
                 /\ pending'[Len(pending')].query # <<>>]_vars

\* a query rejected with the warning while no document is listed, after
\* the documents ingested were removed (no further upload can have raised
\* the warning)
C12_Witness ==
    /\ documents = <<>>
    /\ removed # {}
    /\ nextId > MaxIngests
    /\ ret.alert = "warning"
    /\ ret.fn = "none"
    /\ searchCount = 0

\* the chunk arrays createTextChunks has resolved to
builtChunks ==
    {documents[d].chunks.value : d \in {e \in DOMAIN documents : documents[e].chunks.settled}}

\* C13: the chunks createTextChunks produces for one document have the
\* chunkNumbers 1, 2, ... (strictly increasing) in page order, and none has
\* empty content.
C13_ChunkNumbersIncrease ==
    \A chunks \in builtChunks :
        /\ \A k \in DOMAIN chunks :
               /\ chunks[k].chunkNumber = k
               /\ chunks[k].content # <<>>
        /\ \A k \in 1..(Len(chunks) - 1) :
               /\ chunks[k].chunkNumber < chunks[k + 1].chunkNumber
               /\ chunks[k].pageNumber <= chunks[k + 1].pageNumber

\* a document of two pages, the first giving two chunks and the second one,
\* next to a document that processPDFFile has ingested from two pages of
\* one sentence each
C13_Witness ==
    /\ \E chunks \in builtChunks :
           /\ Len(chunks) = 3
           /\ chunks[1].pageNumber = 1
           /\ chunks[2].pageNumber = 1
           /\ chunks[3].pageNumber = 2
    /\ \E d \in DOMAIN documents :
           /\ ~documents[d].chunks.isArray
           /\ documents[d].chunks.settled
           /\ Len(documents[d].chunks.value) = 2
           /\ documents[d].chunks.value[2].pageNumber = 2

\* the chunks the service holds: <<d, k>> for the k-th chunk of documents[d]
heldChunks ==
    UNION {{<<d, k>> : k \in DOMAIN documents[d].chunks.value} :
           d \in {e \in DOMAIN documents : documents[e].chunks.settled}}

\* C14: after any sequence of ingests no two chunks the service holds, in
\* one document or in two, have the same id.
C14_ChunkIdsUnique ==
    \A p, q \in heldChunks :
        documents[p[1]].chunks.value[p[2]].id = documents[q[1]].chunks.value[q[2]].id
        => p = q

C16_ProcessedAfterChunksBuilt ==
    \A d \in DOMAIN documents :
        documents[d].status = "processed" =>
            /\ documents[d].chunks.settled
            /\ \A b \in DOMAIN builders : builders[b].id # documents[d].id

\* a file processPDFFile is to reject: over the size cap, or without a
\* sentence to make a chunk of
rejectedFile(file) == file.tooLarge \/ chunkTexts[file.pages] = <<>>

\* C17: a file that fails in processPDFFile (over the size cap, no
\* extractable text) fails alone: it adds no document and no chunk, and the
\* files that follow it in the batch are still processed, as are those
\* before it.
C17_FailureFatalToDocumentOnly ==
    [][(uploads # <<>> /\ uploads' # uploads) =>
          /\ uploads' = Tail(uploads)
          /\ IF rejectedFile(Head(uploads))
             THEN UNCHANGED <<documents, builders, vectorDB>>
             ELSE Len(documents') = Len(documents) + 1]_vars

\* C18: a failing embedding call during ingestion is absorbed: the chunk is
\* created with embedding null, every sentence of the document still becomes
\* a chunk, and the document stays ingested (a createTextChunks call in
\* progress belongs to a document that was pushed, and goes on to its
\* remaining chunks).
C18_EmbeddingFailureAbsorbed ==
    /\ \A d \in DOMAIN documents :
           documents[d].chunks.settled =>
               LET chunks == documents[d].chunks.value
                   items == chunkTexts[documents[d].content]
               IN  /\ Len(chunks) = Len(items)
                   /\ \A k \in DOMAIN chunks :
                          /\ chunks[k].content = items[k].content
                          /\ chunks[k].embedding \in {"null", "vec"}
    /\ \A b \in DOMAIN builders :
           /\ Len(builders[b].embedded) < Len(chunkTexts[builders[b].pages])
           /\ \/ builders[b].id \in removed
              \/ \E d \in DOMAIN documents :
                     documents[d].id = builders[b].id /\ documents[d].status = "processed"

\* a document of two chunks whose first embedding call failed and whose
\* second succeeded
C18_Witness ==
    \E d \in DOMAIN documents :
        /\ documents[d].chunks.settled
        /\ Len(documents[d].chunks.value) = 2
        /\ documents[d].chunks.value[1].embedding = "null"
        /\ documents[d].chunks.value[2].embedding = "vec"

\* is a document with this id listed
listed(fileId) == \E d \in DOMAIN documents : documents[d].id = fileId

\* C19: removeFile with an id that no listed document has reports an
\* outcome other than success and leaves the documents unchanged;
\* removeFile with the id of a listed document reports success and
\* removes that document and no other.
C19_RemoveReportsNotFound ==
    [][\A fileId \in 1..MaxIngests :
          RemoveFile(fileId) =>
              IF listed(fileId)
              THEN /\ ret'.alert = "success"
                   /\ Len(documents') = Len(documents) - 1
                   /\ \A d \in DOMAIN documents :
                          documents[d].id # fileId =>
                              \E e \in DOMAIN documents' : documents'[e] = documents[d]
              ELSE /\ ret'.alert # "success"
                   /\ documents' = documents]_vars

\* the chunks of documents[d] among the candidates just returned
chunksReturnedOf(d) ==
    {ret.raw[i].chunkIndex : i \in {j \in DOMAIN ret.raw : ret.raw[j].docIndex = d}}

\* the chunks of documents[d] that match the query of the search just
\* returned: on the keyword path those that pass the threshold, on the
\* vector path those whose vector the database holds among its hits
matchingChunksOf(d) ==
    LET chunks == documents[d].chunks.value
        hits == 1..Min(vectorTopK, Len(vectorDB.entries))
    IN  IF ret.via = "vector"
        THEN {c \in DOMAIN chunks :
                 /\ chunks[c].embedding # "null"
                 /\ \E k \in hits : /\ vectorDB.entries[k].id = chunks[c].id
                                     /\ vectorDB.entries[k].src = documents[d].id}
        ELSE {c \in DOMAIN chunks :
                 passesSearchThreshold(keywordRelevance[chunks[c].content][ret.query])}

QueryShortWords ==
    <<"i","n"," ","Q","3">>
\* "is in"
QueryIsIn ==
    <<"i","s"," ","i","n">>
\* "ab"
QueryAb ==
    <<"a","b">>
\* "budget"
QueryBudget ==
    <<"b","u","d","g","e","t">>
\* "budget planning."
QueryDot ==
    <<"b","u","d","g","e","t"," ","p","l","a","n","n","i","n","g",".">>

RelevanceQueries ==
    {QueryWhen, QueryReport, QuerySummary, QueryShortWords, QueryIsIn, QueryAb,
     QueryBudget, QueryDot}

RelevanceTexts == AllContents \cup {TextPolicy, TextShort}

\* one call of calculateRelevance; the record says what was passed and what
\* came back
CalculateRelevance(chunkContent, query, keywords) ==
    /\ ret' = [NoRet EXCEPT
                  !.fn = "calculateRelevance",
                  !.query = query,
                  !.raw = <<[content |-> chunkContent,
                             keywords |-> keywords,
                             similarity_score |->
                                 calculateRelevance(chunkContent, query, keywords)]>>]
    /\ UNCHANGED <<currentMode, documents, searchCount, embeddings, vectorDB, setupPc,
                   uploads, builders, pending, nextId, removed>>
    /\ UNCHANGED appVars

NextRelevance ==
    \E chunkContent \in RelevanceTexts, query \in RelevanceQueries :
        \E keywords \in {split(toLowerCase(query)), split(toLowerCase(chunkContent))} :
            CalculateRelevance(chunkContent, query, keywords)

SpecRelevance == Init /\ [][NextRelevance]_vars

\* the places of text where word stands, letter for letter without regard to
\* case, counted from the left without overlap
RECURSIVE occurrencesFrom(_, _, _)
occurrencesFrom(text, word, i) ==
    LET at(p) == /\ p + Len(word) - 1 <= Len(text)
                 /\ \A j \in 1..Len(word) : toLowerChar(word[j]) = toLowerChar(text[p + j - 1])
        hits == {p \in i..Len(text) : at(p)}
    IN  IF hits = {} THEN 0
        ELSE 1 + occurrencesFrom(text, word,
                                 (CHOOSE p \in hits : \A q \in hits : p <= q) + Len(word))

RECURSIVE occurrencesOfLongKeywords(_, _)
occurrencesOfLongKeywords(text, keywords) ==
    IF keywords = <<>> THEN 0
    ELSE (IF Len(Head(keywords)) > 2 THEN occurrencesFrom(text, Head(keywords), 1) ELSE 0)
         + occurrencesOfLongKeywords(text, Tail(keywords))

\* C23: calculateRelevance returns min(1.0, 0.3 * the occurrences in the chunk
\* of the keywords longer than 2 characters + 0.5 if the chunk contains the
\* whole query without regard to case + 0.1 if the chunk is longer than 100
\* characters); with no keyword longer than 2 characters the score is at
\* most 0.6 and is above the 0.3 threshold only with the verbatim query.
C23_RelevanceFormula ==
    ret.fn = "calculateRelevance" =>
        LET call == ret.raw[1]
            verbatim == includes(toLowerCase(call.content), toLowerCase(ret.query))
            keywordTerm == 3 * occurrencesOfLongKeywords(call.content, call.keywords)
        IN  /\ call.similarity_score
                   = Min(10, keywordTerm + (IF verbatim THEN 5 ELSE 0)
                                         + (IF Len(call.content) > 100 THEN 1 ELSE 0))
            /\ (\A k \in DOMAIN call.keywords : Len(call.keywords[k]) <= 2) =>
                   /\ keywordTerm = 0
                   /\ call.similarity_score > searchThreshold <=> verbatim

\* no chunk of a listed document holds the query text or a query keyword
\* longer than 2 characters: scored against the keywords of the query, a
\* chunk gets the length bonus (0.1) at most
unrelatedToEveryChunk(query) ==
    \A d \in DOMAIN documents :
        \A c \in DOMAIN documents[d].chunks.value :
            keywordRelevance[documents[d].chunks.value[c].content][query] <= 1

nearestFirst(chunks, i, direction) ==
    IF direction = "before"
    THEN [k \in 1..Min(contextSize, i - 1) |-> chunks[i - k]]
    ELSE [k \in 1..Min(contextSize, Len(chunks) - i) |-> chunks[i + k]]

hasAnsweringSentence(chunkContent, query) ==
    \E i \in DOMAIN sentencesOf(chunkContent) :
        \/ includes(toLowerCase(sentencesOf(chunkContent)[i]), toLowerCase(query))
        \/ hasSemanticMatch(sentencesOf(chunkContent)[i], query)

chunksToString(chunks) ==
    IF ~chunks.isArray THEN <<"[object Promise]">>
    ELSE [k \in 1..(2 * Len(chunks.value) - 1) |->
             IF k % 2 = 1 THEN "[object Object]" ELSE ","]

\* sum + doc.chunks: doc.chunks is an object, so + concatenates strings
plusChunks(sum, chunks) ==
    [type |-> "string",
     value |-> (IF sum.type = "number" THEN <<ToString(sum.value)>> ELSE sum.value)
               \o (IF chunks.isArray /\ chunks.value = <<>> THEN <<>>
                   ELSE chunksToString(chunks))]

\* this.documents.reduce((sum, doc) => sum + doc.chunks, 0)
RECURSIVE reduceChunks(_, _)
reduceChunks(docs, sum) ==
    IF docs = <<>> THEN sum
    ELSE reduceChunks(Tail(docs), plusChunks(sum, Head(docs).chunks))

\* the three texts updateStats writes; it assigns to no field of the service
updateStats(docs, count) ==
    [docCount |-> Len(docs),
     chunkCount |-> reduceChunks(docs, [type |-> "number", value |-> 0]),
     searchCount |-> count]

\* the steps that end in a call of updateStats on the document list:
\* removeFile, and processFiles after the last file of its batch
statsUpdated ==
    \/ \E fileId \in 1..MaxIngests : RemoveFile(fileId)
    \/ ProcessPDFFile /\ ret'.alert = "success"

RECURSIVE totalChunks(_)
totalChunks(docs) ==
    IF docs = <<>> THEN 0 ELSE Len(Head(docs).chunks.value) + totalChunks(Tail(docs))

\* C22: after an ingest or a removal the statistics show documentCount = the
\* number of listed documents and chunkCount = the number of chunks of those
\* documents, a number; computing them leaves documents and searchCount as
\* the handler left them.
C22_StatsCountDocumentsAndChunks ==
    [][statsUpdated =>
          LET stats == updateStats(documents', searchCount')
          IN  /\ stats.docCount = Len(documents')
              /\ stats.searchCount = searchCount'
              /\ stats.chunkCount.type = "number"
              /\ stats.chunkCount.value = totalChunks(documents')]_vars

\* the hits vectorDB.search hands to vectorSimilaritySearch: the first
\* vectorTopK vectors of the database
hitsOf(db) == 1..Min(vectorTopK, Len(db.entries))

retrievalOf(mode) ==
    CASE mode = "search" -> "simulateSearch"
      [] mode = "summary" -> "generateDocumentSummary"
      [] OTHER -> "simulateRAG"

displayOf(mode) ==
    CASE mode = "search" -> "displaySearchResults"
      [] mode = "summary" -> "displaySummaryResults"
      [] OTHER -> "displayRAGResults"

\* an accepted query waits for the timer of performSearch
awaitsTimer == \E p \in DOMAIN pending : pending[p].stage = "timer"

\* C30: an accepted query runs in the mode that was current when it was
\* issued: no step taken while the query waits for its timer changes the
\* retrieval function the timer will call for it (the timer can fire after
\* any such step), and the retrieval function called and the display
\* routine its result is handed to belong to one mode.
C30_QueryKeepsItsMode ==
    [][/\ (awaitsTimer /\ pending' = pending) =>
              retrievalOf(currentMode') = retrievalOf(currentMode)
       /\ (\E p \in 1..MaxPending : RunSearch(p)) =>
              /\ ret'.display = displayOf(currentMode)
              /\ ret'.fn \in {"none", retrievalOf(currentMode)}]_vars

\* a stands before b in the order of the results: the higher score first,
\* among equal scores the lower document id, then the lower chunk number
precedes(a, b) ==
    \/ a.similarity_score > b.similarity_score
    \/ /\ a.similarity_score = b.similarity_score
       /\ \/ a.docId < b.docId
          \/ a.docId = b.docId /\ a.chunk_index < b.chunk_index

UploadBatches(call) ==
    UNION {{[i \in 1..n |-> [name |-> <<call, i>>, pdf |-> kinds[i]]] :
               kinds \in [1..n -> BOOLEAN]} : n \in 1..MaxBatch}

NoFile == <<0, 0>>

\* One call of processUploadQueue, queue and index being the fields as the
\* call finds them and others the calls in flight: past the end of the
\* queue it reports completion and returns, otherwise it calls uploadFile
\* for the file at the index - the POST is sent - and waits for it.
processUploadQueue(queue, index, others) ==
    IF index >= Len(queue)
    THEN /\ notification' = "All files processed"
         /\ chains' = others
         /\ posted' = posted
    ELSE /\ notification' = "Processing"
         /\ chains' = Append(others, [pc |-> "upload", file |-> queue[index + 1].name])
         /\ posted' = Append(posted, queue[index + 1].name)

\* processFiles of InteractiveApp: the queue and the index are replaced,
\* whatever is in flight, and processUploadQueue is called
InteractiveProcessFiles(files) ==
    /\ calls < MaxCalls
    /\ calls' = calls + 1
    /\ LET pdfFiles == SelectSeq(files, isPdf)
       IN  IF pdfFiles = <<>>
           THEN /\ notification' = "Please select PDF files only"
                /\ UNCHANGED <<uploadQueue, processingIndex, chains, posted, handed>>
           ELSE /\ uploadQueue' = pdfFiles
                /\ processingIndex' = 0
                /\ handed' = handed \cup {pdfFiles[i].name : i \in DOMAIN pdfFiles}
                /\ processUploadQueue(pdfFiles, 0, chains)
    /\ UNCHANGED serviceVars

\* uploadFile settles for the call c of processUploadQueue: on success and
\* on failure the index is incremented and the next call is scheduled
UploadFileSettles(c, ok) ==
    /\ c \in DOMAIN chains
    /\ chains[c].pc = "upload"
    /\ processingIndex' = processingIndex + 1
    /\ chains' = [chains EXCEPT ![c] = [pc |-> "timer", file |-> NoFile]]
    /\ notification' = IF ok THEN "uploaded successfully" ELSE "Error processing"
    /\ UNCHANGED <<uploadQueue, posted, handed, calls>>
    /\ UNCHANGED serviceVars

withoutChain(c) == SubSeq(chains, 1, c - 1) \o SubSeq(chains, c + 1, Len(chains))

\* the 500 ms timer of the call c fires: processUploadQueue runs again
UploadTimerFires(c) ==
    /\ c \in DOMAIN chains
    /\ chains[c].pc = "timer"
    /\ processUploadQueue(uploadQueue, processingIndex, withoutChain(c))
    /\ UNCHANGED <<uploadQueue, processingIndex, handed, calls>>
    /\ UNCHANGED serviceVars

NextUpload ==
    \/ \E files \in UploadBatches(calls + 1) : InteractiveProcessFiles(files)
    \/ \E c \in 1..MaxCalls, ok \in BOOLEAN : UploadFileSettles(c, ok)
    \/ \E c \in 1..MaxCalls : UploadTimerFires(c)

SpecUpload == Init /\ [][NextUpload]_vars

\* how often a file was POSTed to /upload
timesPosted(name) == Cardinality({k \in DOMAIN posted : posted[k] = name})

\* C29: every PDF handed to processFiles of InteractiveApp is uploaded
\* exactly once, also when a second processFiles call arrives while the
\* processUploadQueue chain of an earlier batch is running: none is uploaded
\* twice, none is left out when no call is in flight any more, and 'All
\* files processed' is reported only when no call is in flight and every
\* file was uploaded.
C29_EveryPdfUploadedOnce ==
    /\ \A name \in handed : timesPosted(name) <= 1
    /\ chains = <<>> => \A name \in handed : timesPosted(name) = 1
    /\ notification = "All files processed" =>
           /\ chains = <<>>
           /\ \A name \in handed : timesPosted(name) = 1

(***************************************************************************)
(* Searching an indexed service, with the scheduling the program can rely  *)
(* on: the 1500 ms timer of performSearch always fires.  The embedding of  *)
(* the query is computed by the pipeline outside the service; nothing in   *)
(* the service bounds the time it takes, so no step of it is assumed.      *)
(***************************************************************************)
NextSearch ==
    \/ \E input \in Inputs : PerformSearch(input)
    \/ \E p \in 1..MaxPending : RunSearch(p)
    \/ \E p \in 1..MaxPending, embedded \in BOOLEAN : VectorSearchReturns(p, embedded)

\* the step of RunSearch as pending shows it: a query leaves the timer, for
\* the embedding of the query or for good
TimerFires ==
    \E p \in DOMAIN pending :
        /\ pending[p].stage = "timer"
        /\ pending' \in {withoutPending(p), [pending EXCEPT ![p].stage = "embedding"]}

SpecSearch == InitIndexed /\ [][NextSearch]_vars /\ WF_pending(TimerFires)

\* C21: every accepted search eventually completes, also when the embedding
\* of the query never settles: the search then falls back to keyword search
\* and returns instead of waiting forever.
C21_AcceptedSearchCompletes ==
    (pending # <<>>) ~> (pending = <<>>)

====
